---- MODULE Spec2Model ----
(***************************************************************************)
(* A model of bridge_functions.py: the query functions, the inspector      *)
(* assignment, the two mutating operations and the raw-row formatting.     *)
(*                                                                         *)
(* Representation.                                                         *)
(*  - A bridge is a record whose fields are the positions of the Python    *)
(*    list (ID_INDEX .. BCIS_INDEX), in the order THREE_BRIDGES shows.      *)
(*  - Python strings that the code slices or parses are tuples of          *)
(*    one-character strings; the others are TLA+ strings.                  *)
(*  - All locations lie on one meridian (longitude 0) and latitudes are    *)
(*    whole steps, so the haversine distance of two locations is the       *)
(*    number of steps between their latitudes.                             *)
(*  - A call's outcome is [exc, val]: exc is "none" or the name of the     *)
(*    Python exception that escaped the call.                              *)
(*  - op, args and ret are the last call, its arguments and its outcome;  *)
(*    calls counts the calls that changed bridge_data.                     *)
(*  - inspections is a history variable: for each record, the length its   *)
(*    bci history had at the start, the number of inspect_bridges calls    *)
(*    whose bridge_ids held its id, and the bci of the last such call.     *)
(***************************************************************************)
EXTENDS Integers, Sequences, FiniteSets, TLC

VARIABLES bridge_data, data, op, args, ret, calls, inspections

vars == <<bridge_data, data, op, args, ret, calls, inspections>>

----------------------------------------------------------------------------
(* Bounds of the model *)

MaxBridges == 3
MaxInspectors == 2
MaxHistBridges == 2
MaxIdList == 2
MaxCalls == 2
MaxRows == 2
MaxTail == 2

(* Policy constants imported from the constants module *)

HIGH_PRIORITY_BCI == 1
MEDIUM_PRIORITY_BCI == 2
HIGH_PRIORITY_RADIUS == 1
MEDIUM_PRIORITY_RADIUS == 2
LOW_PRIORITY_RADIUS == 3

----------------------------------------------------------------------------
(* Python values *)

Return(v) == [exc |-> "none", val |-> v]

Raise(e) == [exc |-> e, val |-> <<>>]

Abs(x) == IF x < 0 THEN -x ELSE x

Min(a, b) == IF a <= b THEN a ELSE b

Max(a, b) == IF a >= b THEN a ELSE b

\* s[i] of a Python list: i counts from 0, a negative i counts from the end
PyIndexOk(s, i) == -Len(s) <= i /\ i < Len(s)

PyIndex(s, i) == IF i >= 0 THEN s[i + 1] ELSE s[Len(s) + i + 1]

\* s[:n] of a Python list: a negative n drops the last -n elements
PySliceTo(s, n) ==
    LET stop == IF n >= 0 THEN Min(n, Len(s)) ELSE Max(Len(s) + n, 0)
    IN  SubSeq(s, 1, stop)

\* s[a:b] of a Python sequence, for 0 <= a <= b
PySlice(s, a, b) == SubSeq(s, Min(a, Len(s)) + 1, Min(b, Len(s)))

\* x in s, for a Python list s
PyIn(x, s) == \E k \in 1..Len(s) : s[k] = x

\* an int never equals a list
IntEqualsList(i, l) == FALSE

----------------------------------------------------------------------------
(* Sample strings *)

Date2012 == <<"0", "4", "/", "1", "3", "/", "2", "0", "1", "2">>

Date2018 == <<"0", "9", "/", "1", "5", "/", "2", "0", "1", "8">>

Date2023 == <<"0", "9", "/", "1", "5", "/", "2", "0", "2", "3">>

DateShort == <<"0", "9", "/", "1", "5", "/", "2", "3">>

Year2014 == <<"2", "0", "1", "4">>

Year2009 == <<"2", "0", "0", "9">>

\* the history variable before any call
NoInspections(bd) ==
    [i \in 1..Len(bd) |-> [initial |-> Len(bd[i].bcis), named |-> 0, last |-> 0]]

\* the history variable after a call of inspect_bridges(bd, bridge_ids, date, bci)
NoteInspection(bd, bridge_ids, bci, log) ==
    [i \in 1..Len(bd) |->
        IF \E j \in 1..Len(bridge_ids) : bridge_ids[j] = bd[i].id
        THEN [log[i] EXCEPT !.named = @ + 1, !.last = bci]
        ELSE log[i]]

\* a bridge as THREE_BRIDGES lays it out; only id, lat and bcis vary
Bridge(id, lat, bcis) ==
    [id |-> id, name |-> "UNDERPASS", highway |-> "403", lat |-> lat, lon |-> 0,
     year |-> "1965", last_major |-> Year2014, last_minor |-> Year2009,
     num_spans |-> 1, span_details |-> <<16>>, length |-> 18,
     last_inspected |-> Date2012, bcis |-> bcis]

\* a BCI of each priority tier
BciValues == {HIGH_PRIORITY_BCI, MEDIUM_PRIORITY_BCI, MEDIUM_PRIORITY_BCI + 1}

\* the latitudes of bridges: at one place, or HIGH_PRIORITY_RADIUS apart
Lats == {0, HIGH_PRIORITY_RADIUS}

\* the latitudes an inspector or a query point is drawn from: with Lats they
\* give every distance from 0 to LOW_PRIORITY_RADIUS + 1
PointLats == {0, MEDIUM_PRIORITY_RADIUS, LOW_PRIORITY_RADIUS + 1}

\* the radii of a query: negative, 0 and up to LOW_PRIORITY_RADIUS
Radii == -1..LOW_PRIORITY_RADIUS

\* the capacities of an assignment: negative, 0 and up to all bridges
Caps == -1..MaxBridges

\* bridge_data after format_data: ids are 1..N in collection order
Collections(histories) ==
    UNION {{[i \in 1..n |-> Bridge(i, lat[i], h[i])] :
              lat \in [1..n -> Lats], h \in [1..n -> histories]} :
           n \in 0..MaxBridges}

CurrentBciHistories == {<<>>} \cup {<<b>> : b \in BciValues}

----------------------------------------------------------------------------
(* calculate_distance, get_distance_between *)

CalculateDistance(lat1, lon1, lat2, lon2) == Abs(lat2 - lat1)

GetDistanceBetween(bridge1, bridge2) ==
    CalculateDistance(bridge1.lat, bridge1.lon, bridge2.lat, bridge2.lon)

----------------------------------------------------------------------------
(* get_closest_bridge *)

\* d > x, where d starts as float("inf")
DGreater(st, x) == st.inf \/ st.d > x

RECURSIVE ClosestLoop(_, _, _, _)
ClosestLoop(bd, bridge_id, i, st) ==
    IF i >= Len(bd) - 1 \/ st.exc /= "none" THEN st
    ELSE IF bd[i + 1].id = bridge_id THEN ClosestLoop(bd, bridge_id, i + 1, st)
    ELSE IF ~PyIndexOk(bd, bridge_id) THEN [st EXCEPT !.exc = "IndexError"]
    ELSE LET x == GetDistanceBetween(bd[i + 1], PyIndex(bd, bridge_id))
         IN  IF DGreater(st, x)
             THEN ClosestLoop(bd, bridge_id, i + 1,
                              [st EXCEPT !.inf = FALSE, !.d = x, !.index = bd[i + 1].id])
             ELSE ClosestLoop(bd, bridge_id, i + 1, st)

GetClosestBridge(bd, bridge_id) ==
    LET st == ClosestLoop(bd, bridge_id, 0,
                          [inf |-> TRUE, d |-> 0, index |-> 0, exc |-> "none"])
    IN  IF st.exc /= "none" THEN Raise(st.exc) ELSE Return(st.index)

----------------------------------------------------------------------------
(* get_bridges_in_radius *)

WithinRadiusStrict(d, radius) == d < radius

WithinRadius(d, radius) == d <= radius

RECURSIVE InRadiusLoop(_, _, _, _, _, _)
InRadiusLoop(bd, latitude, longtitude, radius, k, acc) ==
    IF k > Len(bd) THEN acc
    ELSE LET bridge == bd[k]
             d == CalculateDistance(bridge.lat, bridge.lon, latitude, longtitude)
         IN  InRadiusLoop(bd, latitude, longtitude, radius, k + 1,
                          IF WithinRadius(d, radius) THEN Append(acc, bridge.id)
                          ELSE acc)

GetBridgesInRadius(bd, latitude, longtitude, radius) ==
    InRadiusLoop(bd, latitude, longtitude, radius, 1, <<>>)

----------------------------------------------------------------------------
(* assign_inspectors *)

\* bridge[ID_INDEX] not in inspector_assignments: the elements are lists
NotInAssignments(id, inspector_assignments) ==
    \A k \in 1..Len(inspector_assignments) :
        ~IntEqualsList(id, inspector_assignments[k])

\* the conditions a comprehension tests before it reads bridge[BCIS_INDEX][0]
Candidate(bridge, bridge_ids, inspector_assignments, in_radius) ==
    /\ PyIn(bridge.id, bridge_ids)
    /\ NotInAssignments(bridge.id, inspector_assignments)
    /\ PyIn(bridge.id, in_radius)

IsHighPriority(bci) == bci <= HIGH_PRIORITY_BCI

IsMediumPriority(bci) == HIGH_PRIORITY_BCI < bci /\ bci <= MEDIUM_PRIORITY_BCI

IsLowPriority(bci) == bci > MEDIUM_PRIORITY_BCI

HpBridges(bd, bridge_ids, inspector_assignments, in_radius) ==
    SelectSeq(bd, LAMBDA bridge :
        /\ Candidate(bridge, bridge_ids, inspector_assignments, in_radius)
        /\ IsHighPriority(bridge.bcis[1]))

MpBridges(bd, bridge_ids, inspector_assignments, in_radius) ==
    SelectSeq(bd, LAMBDA bridge :
        /\ Candidate(bridge, bridge_ids, inspector_assignments, in_radius)
        /\ IsMediumPriority(bridge.bcis[1]))

LpBridges(bd, bridge_ids, inspector_assignments, in_radius) ==
    SelectSeq(bd, LAMBDA bridge :
        /\ Candidate(bridge, bridge_ids, inspector_assignments, in_radius)
        /\ IsLowPriority(bridge.bcis[1]))

\* a comprehension reads bcis[0] of a candidate whose bci list is empty
ReadsEmptyBcis(bd, bridge_ids, inspector_assignments, in_radius) ==
    \E k \in 1..Len(bd) :
        /\ Candidate(bd[k], bridge_ids, inspector_assignments, in_radius)
        /\ bd[k].bcis = <<>>

BridgesToAssignReversed(hp_bridges, mp_bridges, lp_bridges) ==
    lp_bridges \o mp_bridges \o hp_bridges

BridgesToAssign(hp_bridges, mp_bridges, lp_bridges) ==
    hp_bridges \o mp_bridges \o lp_bridges

AssignedBridges(bridges_to_assign, max_bridges) ==
    PySliceTo(bridges_to_assign, max_bridges)

IdsOf(bridges) == [k \in 1..Len(bridges) |-> bridges[k].id]

RemoveAssignedForgotten(bridge_ids, assigned_ids) == bridge_ids

RemoveAssignedByCount(bridge_ids, assigned_ids) ==
    SubSeq(bridge_ids, Len(assigned_ids) + 1, Len(bridge_ids))

RemoveAssigned(bridge_ids, assigned_ids) ==
    SelectSeq(bridge_ids, LAMBDA bridge_id : ~PyIn(bridge_id, assigned_ids))

\* one pass of the loop over inspectors; st = [bridge_ids, inspector_assignments, exc]
AssignStep(bd, inspector, max_bridges, st) ==
    LET in_hp == GetBridgesInRadius(bd, inspector[1], inspector[2], HIGH_PRIORITY_RADIUS)
        in_mp == GetBridgesInRadius(bd, inspector[1], inspector[2], MEDIUM_PRIORITY_RADIUS)
        in_lp == GetBridgesInRadius(bd, inspector[1], inspector[2], LOW_PRIORITY_RADIUS)
        ids == st.bridge_ids
        ia == st.inspector_assignments
    IN  IF \/ ReadsEmptyBcis(bd, ids, ia, in_hp)
           \/ ReadsEmptyBcis(bd, ids, ia, in_mp)
           \/ ReadsEmptyBcis(bd, ids, ia, in_lp)
        THEN [st EXCEPT !.exc = "IndexError"]
        ELSE LET bridges_to_assign ==
                     BridgesToAssign(HpBridges(bd, ids, ia, in_hp),
                                     MpBridges(bd, ids, ia, in_mp),
                                     LpBridges(bd, ids, ia, in_lp))
                 assigned_ids == IdsOf(AssignedBridges(bridges_to_assign, max_bridges))
             IN  [bridge_ids |-> RemoveAssigned(ids, assigned_ids),
                  inspector_assignments |-> Append(ia, assigned_ids),
                  exc |-> "none"]

RECURSIVE AssignLoop(_, _, _, _, _)
AssignLoop(bd, inspectors, max_bridges, k, st) ==
    IF k > Len(inspectors) \/ st.exc /= "none" THEN st
    ELSE AssignLoop(bd, inspectors, max_bridges, k + 1,
                    AssignStep(bd, inspectors[k], max_bridges, st))

AssignInspectors(bd, inspectors, max_bridges) ==
    LET st == AssignLoop(bd, inspectors, max_bridges, 1,
                         [bridge_ids |-> IdsOf(bd),
                          inspector_assignments |-> <<>>,
                          exc |-> "none"])
    IN  IF st.exc /= "none" THEN Raise(st.exc) ELSE Return(st.inspector_assignments)

\* the loop's variables when it reaches inspector k, counted from 1
LoopStateAt(bd, inspectors, max_bridges, k) ==
    AssignLoop(bd, SubSeq(inspectors, 1, k - 1), max_bridges, 1,
               [bridge_ids |-> IdsOf(bd),
                inspector_assignments |-> <<>>,
                exc |-> "none"])

\* the ids that pass the two tests the comprehensions make before the radius
\* test, when the loop reaches inspector k
EligibleAt(bd, inspectors, max_bridges, k) ==
    LET st == LoopStateAt(bd, inspectors, max_bridges, k)
    IN  {bd[i].id : i \in {j \in 1..Len(bd) :
            /\ PyIn(bd[j].id, st.bridge_ids)
            /\ NotInAssignments(bd[j].id, st.inspector_assignments)}}

InspectorLists ==
    UNION {[1..n -> {<<lat, 0>> : lat \in PointLats}] : n \in 0..MaxInspectors}

----------------------------------------------------------------------------
(* Next-state actions of the query specification: a behaviour loads a        *)
(* collection and makes one call of a query function, which leaves the      *)
(* collection as it is                                                       *)

CallGetClosestBridge ==
    /\ op = "load"
    /\ \E bridge_id \in -1..(MaxBridges + 1) :
         /\ op' = "get_closest_bridge"
         /\ args' = [bridge_id |-> bridge_id]
         /\ ret' = GetClosestBridge(bridge_data, bridge_id)
    /\ UNCHANGED <<bridge_data, data, calls, inspections>>

CallGetBridgesInRadius ==
    /\ op = "load"
    /\ \E latitude \in PointLats, radius \in Radii :
         /\ op' = "get_bridges_in_radius"
         /\ args' = [latitude |-> latitude, longtitude |-> 0, radius |-> radius]
         /\ ret' = Return(GetBridgesInRadius(bridge_data, latitude, 0, radius))
    /\ UNCHANGED <<bridge_data, data, calls, inspections>>

CallAssignInspectors ==
    /\ op = "load"
    /\ \E inspectors \in InspectorLists, max_bridges \in Caps :
         /\ op' = "assign_inspectors"
         /\ args' = [inspectors |-> inspectors, max_bridges |-> max_bridges]
         /\ ret' = AssignInspectors(bridge_data, inspectors, max_bridges)
    /\ UNCHANGED <<bridge_data, data, calls, inspections>>

Init ==
    /\ bridge_data \in Collections(CurrentBciHistories)
    /\ data = <<>>
    /\ op = "load"
    /\ args = <<>>
    /\ ret = Return(<<>>)
    /\ calls = 0
    /\ inspections = NoInspections(bridge_data)

Next ==
    \/ CallGetClosestBridge
    \/ CallGetBridgesInRadius
    \/ CallAssignInspectors

Spec == Init /\ [][Next]_vars

----------------------------------------------------------------------------
(* get_average_bci; a number is the fraction num / den *)

Number(num, den) == [num |-> num, den |-> den]

RECURSIVE PySum(_)
PySum(s) == IF s = <<>> THEN 0 ELSE Head(s) + PySum(Tail(s))

\* sum(bcis) / len(bcis)
Average(bcis) ==
    IF Len(bcis) = 0 THEN Raise("ZeroDivisionError")
    ELSE Return(Number(PySum(bcis), Len(bcis)))

RECURSIVE AverageLoop(_, _, _)
AverageLoop(bd, bridge_id, k) ==
    IF k > Len(bd) THEN Return(Number(0, 1))
    ELSE IF bd[k].id = bridge_id THEN Average(bd[k].bcis)
    ELSE AverageLoop(bd, bridge_id, k + 1)

GetAverageBci(bd, bridge_id) == AverageLoop(bd, bridge_id, 1)

----------------------------------------------------------------------------
(* inspect_bridges *)

InspectRecordAtEnd(bridge, date, bci) ==
    [bridge EXCEPT !.last_inspected = date, !.bcis = Append(@, bci)]

InspectRecord(bridge, date, bci) ==
    [bridge EXCEPT !.last_inspected = date, !.bcis = <<bci>> \o @]

InspectBridgesPerOccurrence(bd, bridge_ids, date, bci) ==
    [k \in 1..Len(bd) |->
        LET n == Cardinality({j \in 1..Len(bridge_ids) : bridge_ids[j] = bd[k].id})
        IN  IF n = 0 THEN bd[k]
            ELSE [bd[k] EXCEPT !.last_inspected = date,
                               !.bcis = [j \in 1..n |-> bci] \o @]]

InspectBridges(bd, bridge_ids, date, bci) ==
    [k \in 1..Len(bd) |->
        IF PyIn(bd[k].id, bridge_ids) THEN InspectRecord(bd[k], date, bci)
        ELSE bd[k]]

----------------------------------------------------------------------------
(* add_rehab *)

RehabYearSlice(rehab_year) == PySlice(rehab_year, 6, 10)

RehabRecordSwapped(bridge, rehab_year_slice, rehab) ==
    IF rehab = TRUE THEN [bridge EXCEPT !.last_minor = rehab_year_slice]
    ELSE [bridge EXCEPT !.last_major = rehab_year_slice]

RehabRecord(bridge, rehab_year_slice, rehab) ==
    IF rehab = TRUE THEN [bridge EXCEPT !.last_major = rehab_year_slice]
    ELSE [bridge EXCEPT !.last_minor = rehab_year_slice]

AddRehab(bd, bridge_id, rehab_year, rehab) ==
    [k \in 1..Len(bd) |->
        IF bd[k].id = bridge_id
        THEN RehabRecord(bd[k], RehabYearSlice(rehab_year), rehab)
        ELSE bd[k]]

----------------------------------------------------------------------------
(* Next-state actions of the history specification: inspections and rehab   *)
(* updates change bridge_data, get_average_bci reads it                     *)

\* a bridge never inspected, or inspected once
InitialHistories == {<<>>, <<MEDIUM_PRIORITY_BCI>>}

\* the BCIs an inspection records
InspectionBcis == {HIGH_PRIORITY_BCI, MEDIUM_PRIORITY_BCI + 1}

HistoryCollections ==
    UNION {{[i \in 1..n |-> Bridge(i, 0, h[i])] : h \in [1..n -> InitialHistories]} :
           n \in 0..MaxHistBridges}

IdLists == UNION {[1..n -> 1..(MaxHistBridges + 1)] : n \in 0..MaxIdList}

CallInspectBridges ==
    /\ calls < MaxCalls
    /\ \E bridge_ids \in IdLists, bci \in InspectionBcis :
         /\ op' = "inspect_bridges"
         /\ args' = [bridge_ids |-> bridge_ids, date |-> Date2018, bci |-> bci]
         /\ bridge_data' = InspectBridges(bridge_data, bridge_ids, Date2018, bci)
         /\ inspections' = NoteInspection(bridge_data, bridge_ids, bci, inspections)
    /\ ret' = Return(<<>>)
    /\ calls' = calls + 1
    /\ UNCHANGED data

CallAddRehab ==
    /\ calls < MaxCalls
    /\ \E bridge_id \in 0..(MaxHistBridges + 1), rehab_year \in {Date2023, DateShort},
          rehab \in BOOLEAN :
         /\ op' = "add_rehab"
         /\ args' = [bridge_id |-> bridge_id, rehab_year |-> rehab_year, rehab |-> rehab]
         /\ bridge_data' = AddRehab(bridge_data, bridge_id, rehab_year, rehab)
    /\ ret' = Return(<<>>)
    /\ calls' = calls + 1
    /\ UNCHANGED <<data, inspections>>

CallGetAverageBci ==
    /\ \E bridge_id \in 0..(MaxHistBridges + 1) :
         /\ op' = "get_average_bci"
         /\ args' = [bridge_id |-> bridge_id]
         /\ ret' = GetAverageBci(bridge_data, bridge_id)
    /\ UNCHANGED <<bridge_data, data, calls, inspections>>

InitHistory ==
    /\ bridge_data \in HistoryCollections
    /\ data = <<>>
    /\ op = "load"
    /\ args = <<>>
    /\ ret = Return(<<>>)
    /\ calls = 0
    /\ inspections = NoInspections(bridge_data)

NextHistory ==
    \/ CallInspectBridges
    \/ CallAddRehab
    \/ CallGetAverageBci

SpecHistory == InitHistory /\ [][NextHistory]_vars

----------------------------------------------------------------------------
(* Raw rows: a cell is a tagged value, a raw cell is a string of characters *)

ID_INDEX == 0
LAT_INDEX == 3
LON_INDEX == 4
NUM_SPANS_INDEX == 8
SPAN_DETAILS_INDEX == 9
LENGTH_INDEX == 10
BCIS_INDEX == 12

Str(s) == [t |-> "str", v |-> s]

IntCell(n) == [t |-> "int", v |-> n]

Flt(x) == [t |-> "float", v |-> x]

Lst(l) == [t |-> "list", v |-> l]

\* record[i] = x of a Python list
PySet(record, i, x) == [record EXCEPT ![i + 1] = x]

Digits == <<"0", "1", "2", "3", "4", "5", "6", "7", "8", "9">>

IsDigit(c) == \E i \in 1..10 : Digits[i] = c

DigitValue(c) == (CHOOSE i \in 1..10 : Digits[i] = c) - 1

RECURSIVE Pow10(_)
Pow10(n) == IF n = 0 THEN 1 ELSE 10 * Pow10(n - 1)

\* the first n digits of s read as a decimal numeral
RECURSIVE NumeralTo(_, _)
NumeralTo(s, n) ==
    IF n = 0 THEN 0 ELSE 10 * NumeralTo(s, n - 1) + DigitValue(s[n])

Numeral(s) == NumeralTo(s, Len(s))

\* F(x), with x evaluated once
With(x, F(_)) == CHOOSE r \in {F(v) : v \in {x}} : TRUE

\* s.find(c): the position of the first c, counted from 0, or -1
Find(s, c) ==
    IF \E k \in 1..Len(s) : s[k] = c
    THEN (CHOOSE k \in 1..Len(s) : s[k] = c /\ \A j \in 1..(k - 1) : s[j] /= c) - 1
    ELSE -1

\* float(s) for a string of digits, '.', '-' and other characters
Unsigned(body) ==
    LET dot == Find(body, ".")
        places == IF dot = -1 THEN 0 ELSE Len(body) - dot - 1
    IN  With(SelectSeq(body, LAMBDA c : c /= "."), LAMBDA digits :
            IF \/ digits = <<>>
               \/ Len(body) - Len(digits) > 1
               \/ \E k \in 1..Len(digits) : ~IsDigit(digits[k])
            THEN Raise("ValueError")
            ELSE Return(Number(Numeral(digits), Pow10(places))))

PyFloat(s) ==
    With(s, LAMBDA str :
        IF str /= <<>> /\ str[1] = "-"
        THEN With(Unsigned(Tail(str)), LAMBDA x :
                 IF x.exc /= "none" THEN x
                 ELSE Return(Number(-x.val.num, x.val.den)))
        ELSE With(str, Unsigned))

\* int(s) for a string of digits and other characters
PyInt(s) ==
    With(s, LAMBDA str :
        IF str = <<>> \/ \E k \in 1..Len(str) : ~IsDigit(str[k])
        THEN Raise("ValueError")
        ELSE Return(Numeral(str)))

\* s.split(sep): the pieces between the separators, empty pieces included
RECURSIVE Split(_, _)
Split(s, sep) ==
    With(s, LAMBDA str :
        LET at == Find(str, sep)
        IN  IF at = -1 THEN <<str>>
            ELSE <<SubSeq(str, 1, at)>> \o Split(SubSeq(str, at + 2, Len(str)), sep))

\* ''.join(pieces)
RECURSIVE JoinFrom(_, _)
JoinFrom(pieces, k) ==
    IF k > Len(pieces) THEN <<>> ELSE pieces[k] \o JoinFrom(pieces, k + 1)

Join(pieces) == JoinFrom(pieces, 1)

\* a formatting step's outcome: the record as the step left it, and the
\* exception that ended the step
Step(record, exc) == [record |-> record, exc |-> exc]

\* the statement after a step: it runs unless the step raised
Then(step, F(_)) ==
    With(step, LAMBDA st : IF st.exc = "none" THEN F(st.record) ELSE st)

----------------------------------------------------------------------------
(* format_location *)

\* bridge_record[index] = float(bridge_record[index])
ToFloat(bridge_record, index) ==
    With(PyFloat(bridge_record[index + 1].v), LAMBDA x :
        IF x.exc /= "none" THEN Step(bridge_record, x.exc)
        ELSE Step(PySet(bridge_record, index, Flt(x.val)), "none"))

FormatLocation(bridge_record) ==
    Then(ToFloat(bridge_record, LAT_INDEX), LAMBDA r : ToFloat(r, LON_INDEX))

----------------------------------------------------------------------------
(* format_spans *)

\* the loop over the pieces: float(char[char.find('=') + 1:])
RECURSIVE SpansLoop(_, _, _)
SpansLoop(r, k, spans_list) ==
    IF k > Len(r) THEN Return(spans_list)
    ELSE LET char == r[k]
             index == Find(char, "=")
         IN  With(PyFloat(SubSeq(char, index + 2, Len(char))), LAMBDA new :
                 IF new.exc /= "none" THEN Raise(new.exc)
                 ELSE With(Append(spans_list, new.val), LAMBDA l :
                          SpansLoop(r, k + 1, l)))

\* bridge_record[NUM_SPANS_INDEX] = int(bridge_record[NUM_SPANS_INDEX])
ToInt(bridge_record, index) ==
    With(PyInt(bridge_record[index + 1].v), LAMBDA n :
        IF n.exc /= "none" THEN Step(bridge_record, n.exc)
        ELSE Step(PySet(bridge_record, index, IntCell(n.val)), "none"))

\* the statements of format_spans after the first
SpanDetailsToList(bridge_record) ==
    With(Split(bridge_record[SPAN_DETAILS_INDEX + 1].v, " "), LAMBDA s :
        IF Len(s) < 2 THEN Step(bridge_record, "IndexError")
        ELSE With(Split(Join(SubSeq(s, 3, Len(s))), ";"), LAMBDA pieces :
               With(SubSeq(pieces, 1, Len(pieces) - 1), LAMBDA r :
                 With(SpansLoop(r, 1, <<>>), LAMBDA spans :
                   IF spans.exc /= "none" THEN Step(bridge_record, spans.exc)
                   ELSE Step(PySet(bridge_record, SPAN_DETAILS_INDEX, Lst(spans.val)),
                             "none")))))

FormatSpans(bridge_record) ==
    Then(ToInt(bridge_record, NUM_SPANS_INDEX), SpanDetailsToList)

----------------------------------------------------------------------------
(* format_length *)

\* bridge_record != '': a list never equals a string
ListDiffersFromStr(record, string) == TRUE

FormatLength(bridge_record) ==
    IF ListDiffersFromStr(bridge_record, <<>>)
    THEN ToFloat(bridge_record, LENGTH_INDEX)
    ELSE Step(PySet(bridge_record, LENGTH_INDEX, Flt(Number(0, 1))), "none")

----------------------------------------------------------------------------
(* format_bcis *)

\* the loop from the last cell down to the cell after BCIS_INDEX; i counts
\* from 0; st = [record, bcis_list, exc]
RECURSIVE BcisLoop(_, _)
BcisLoop(i, state) ==
    With(state, LAMBDA st :
        IF i <= BCIS_INDEX THEN st
        ELSE LET cell == st.record[i + 1].v
             IN  With(PyFloat(cell), LAMBDA x :
                     IF cell /= <<>> /\ x.exc /= "none" THEN [st EXCEPT !.exc = x.exc]
                     ELSE BcisLoop(i - 1,
                            [record |-> SubSeq(st.record, 1, i),
                             bcis_list |-> IF cell /= <<>>
                                           THEN Append(st.bcis_list, x.val)
                                           ELSE st.bcis_list,
                             exc |-> "none"])))

Reverse(l) == [k \in 1..Len(l) |-> l[Len(l) + 1 - k]]

FormatBcis(bridge_record) ==
    With(BcisLoop(Len(bridge_record) - 1,
                  [record |-> bridge_record, bcis_list |-> <<>>, exc |-> "none"]),
         LAMBDA st :
            IF st.exc /= "none" THEN Step(st.record, st.exc)
            ELSE Step(PySet(st.record, BCIS_INDEX, Lst(Reverse(st.bcis_list))), "none"))

----------------------------------------------------------------------------
(* format_data *)

FormatRow(row, i) ==
    Then(Then(Then(Then(Step(PySet(row, ID_INDEX, IntCell(i + 1)), "none"),
                        FormatLocation),
                   FormatSpans),
              FormatLength),
         FormatBcis)

\* the loop over range(len(data)); i counts from 0; st = [data, exc]
RECURSIVE FormatLoop(_, _)
FormatLoop(i, state) ==
    With(state, LAMBDA st :
        IF i >= Len(st.data) \/ st.exc /= "none" THEN st
        ELSE With(FormatRow(st.data[i + 1], i), LAMBDA row :
                 FormatLoop(i + 1, [data |-> [st.data EXCEPT ![i + 1] = row.record],
                                    exc |-> row.exc])))

FormatData(rows) == FormatLoop(0, [data |-> rows, exc |-> "none"])

----------------------------------------------------------------------------
(* Raw rows of the formatting specification *)

SpanDetails ==
    {<<"T", "=", "6", " ", " ", "(", "1", ")", "=", "6", ";">>,
     <<"T", "=", "9", " ", " ", "(", "1", ")", "=", "4", ";", "(", "2", ")", "=", "5", ";">>}

LengthCells == {<<>>, <<"6", "5">>, <<"1", "8", ".", "4">>, <<"x">>}

BciCells == {<<>>, <<"7", "2", ".", "3">>}

\* a raw row as THREE_BRIDGES_UNCLEANED lays it out
RawRow(spans, length, bcis) ==
    <<Str(<<"1", "/">>), Str(<<"n">>), Str(<<"6">>), Str(<<"4", "3", ".", "1">>),
      Str(<<"-", "8", "0", ".", "2">>), Str(<<"1", "9", "6", "5">>), Str(Year2014),
      Str(Year2009), Str(<<"2">>), Str(spans), Str(length), Str(Date2012)>>
    \o [k \in 1..Len(bcis) |-> Str(bcis[k])]

RawRows ==
    {RawRow(spans, length, bcis) :
        spans \in SpanDetails, length \in LengthCells,
        bcis \in [1..(MaxTail + 1) -> BciCells]}

RawData == UNION {[1..n -> RawRows] : n \in 0..MaxRows}

CallFormatData ==
    /\ op = "load"
    /\ op' = "format_data"
    /\ args' = [data |-> data]
    /\ \E st \in {FormatData(data)} :
         /\ data' = st.data
         /\ ret' = IF st.exc /= "none" THEN Raise(st.exc) ELSE Return(<<>>)
    /\ UNCHANGED <<bridge_data, calls, inspections>>

InitFormat ==
    /\ data \in RawData
    /\ bridge_data = <<>>
    /\ op = "load"
    /\ args = <<>>
    /\ ret = Return(<<>>)
    /\ calls = 0
    /\ inspections = NoInspections(bridge_data)

NextFormat == CallFormatData

SpecFormat == InitFormat /\ [][NextFormat]_vars

----------------------------------------------------------------------------
(* Properties of assign_inspectors *)

Assigned == op = "assign_inspectors" /\ ret.exc = "none"

Range(s) == {s[k] : k \in 1..Len(s)}

IsPrefix(p, s) == Len(p) <= Len(s) /\ SubSeq(s, 1, Len(p)) = p

\* the ids the inspectors before inspector k were given
AssignedBefore(k) == UNION {Range(ret.val[j]) : j \in 1..(k - 1)}

\* the still-unassigned bridges of one tier of inspector k, in collection order
TierIds(k, radius, InTier(_)) ==
    IdsOf(SelectSeq(bridge_data, LAMBDA b :
        /\ b.id \notin AssignedBefore(k)
        /\ Abs(b.lat - args.inspectors[k][1]) <= radius
        /\ b.bcis /= <<>>
        /\ InTier(b.bcis[1])))

HighTier(k) == TierIds(k, HIGH_PRIORITY_RADIUS, LAMBDA c : c <= HIGH_PRIORITY_BCI)

MediumTier(k) ==
    TierIds(k, MEDIUM_PRIORITY_RADIUS,
            LAMBDA c : HIGH_PRIORITY_BCI < c /\ c <= MEDIUM_PRIORITY_BCI)

LowTier(k) == TierIds(k, LOW_PRIORITY_RADIUS, LAMBDA c : c > MEDIUM_PRIORITY_BCI)

TierOrder(k) == HighTier(k) \o MediumTier(k) \o LowTier(k)

\* C1: no bridge id occurs in the assignments of two inspectors, nor twice in
\* the assignment of one inspector.
C1_ExclusiveAssignment ==
    Assigned =>
        \A i, j \in 1..Len(ret.val) :
            \A p \in 1..Len(ret.val[i]), q \in 1..Len(ret.val[j]) :
                (i /= j \/ p /= q) => ret.val[i][p] /= ret.val[j][q]

\* two inspectors at one place, and both were given bridges
C1_Witness ==
    /\ Assigned
    /\ Len(ret.val) = 2
    /\ args.inspectors[1] = args.inspectors[2]
    /\ ret.val[1] /= <<>>
    /\ ret.val[2] /= <<>>

\* C2: an assignment holds at most max_bridges ids, is empty when max_bridges
\* is 0 or negative, and holds every candidate when there are fewer candidates
\* than max_bridges.
C2_CapacityRespected ==
    Assigned =>
        \A k \in 1..Len(ret.val) :
            /\ Len(ret.val[k]) <= Max(args.max_bridges, 0)
            /\ args.max_bridges <= 0 => ret.val[k] = <<>>
            /\ Len(TierOrder(k)) < args.max_bridges => ret.val[k] = TierOrder(k)

\* C3: each assignment is a prefix of the inspector's high tier, then its
\* medium tier, then its low tier, each in collection order, and no bridge is
\* in two tiers.
C3_TierPrefix ==
    Assigned =>
        \A k \in 1..Len(ret.val) :
            /\ IsPrefix(ret.val[k], TierOrder(k))
            /\ Range(HighTier(k)) \cap Range(MediumTier(k)) = {}
            /\ Range(HighTier(k)) \cap Range(LowTier(k)) = {}
            /\ Range(MediumTier(k)) \cap Range(LowTier(k)) = {}

\* a later bridge of a higher tier was assigned, and the capacity cut off an
\* earlier bridge of a lower tier
C3_Witness ==
    /\ Assigned
    /\ args.max_bridges > 0
    /\ \E k \in 1..Len(ret.val) :
         /\ ret.val[k] /= <<>>
         /\ Len(ret.val[k]) < Len(TierOrder(k))
         /\ \E b \in Range(TierOrder(k)) \ Range(ret.val[k]) :
                b < ret.val[k][Len(ret.val[k])]

----------------------------------------------------------------------------
(* Properties of get_closest_bridge *)

HasId(bd, id) == \E k \in 1..Len(bd) : bd[k].id = id

RecordOf(bd, id) == bd[CHOOSE k \in 1..Len(bd) : bd[k].id = id]

\* the first record other than id at the least distance from the record id
NearestOther(bd, id) ==
    LET others == {k \in 1..Len(bd) : bd[k].id /= id}
        dist(k) == Abs(bd[k].lat - RecordOf(bd, id).lat)
        best == CHOOSE k \in others :
                    \A j \in others : dist(k) < dist(j) \/ (dist(k) = dist(j) /\ k <= j)
    IN  bd[best].id

\* C4: with the bridge present and at least two records, the result is the
\* first record other than bridge_id at the least distance from it, over all
\* other records.
C4_ClosestOverAll ==
    (/\ op = "get_closest_bridge"
     /\ Len(bridge_data) >= 2
     /\ HasId(bridge_data, args.bridge_id))
        => /\ ret.exc = "none"
           /\ ret.val = NearestOther(bridge_data, args.bridge_id)

\* C5: the result is 0, and nothing is raised, when the collection has fewer
\* than two records or no record has the id.
C5_SentinelWhenAbsent ==
    (/\ op = "get_closest_bridge"
     /\ (Len(bridge_data) < 2 \/ ~HasId(bridge_data, args.bridge_id)))
        => /\ ret.exc = "none"
           /\ ret.val = 0

----------------------------------------------------------------------------
(* Properties of get_bridges_in_radius *)

\* the result lists, in collection order, the ids at most radius away
ExactlyWithin ==
    ret.val = IdsOf(SelectSeq(bridge_data, LAMBDA b :
                  Abs(b.lat - args.latitude) <= args.radius))

\* C7 as stated: the result is empty for every radius <= 0, and for a radius
\* above 0 it lists, in collection order, the ids at most radius away.
C7_EmptyForNonPositiveRadius ==
    op = "get_bridges_in_radius" =>
        /\ args.radius <= 0 => ret.val = <<>>
        /\ args.radius > 0 => ExactlyWithin

\* C7 amended: the result is empty for every radius below 0, and for every
\* radius, 0 included, it lists in collection order the ids at most radius
\* away, so a bridge at the query point is returned for radius 0.
C7_EmptyForNegativeRadius ==
    op = "get_bridges_in_radius" =>
        /\ args.radius < 0 => ret.val = <<>>
        /\ ExactlyWithin

\* radius 0 at the place of a bridge
C7_Witness ==
    /\ op = "get_bridges_in_radius"
    /\ args.radius = 0
    /\ \E k \in 1..Len(bridge_data) : bridge_data[k].lat = args.latitude
    /\ \E k \in 1..Len(bridge_data) : bridge_data[k].lat /= args.latitude

----------------------------------------------------------------------------
(* Properties of get_average_bci *)

RECURSIVE Total(_, _)
Total(s, n) == IF n = 0 THEN 0 ELSE Total(s, n - 1) + s[n]

\* the number ret.val is x / n
IsQuotient(x, n) == ret.val.num * n = ret.val.den * x

\* C6: get_average_bci returns 0 without raising when no record has the id or
\* the record's bci_history is empty, and the mean of bci_history otherwise.
C6_AverageOrZero ==
    op = "get_average_bci" =>
        /\ ret.exc = "none"
        /\ IF HasId(bridge_data, args.bridge_id)
               /\ RecordOf(bridge_data, args.bridge_id).bcis /= <<>>
           THEN LET h == RecordOf(bridge_data, args.bridge_id).bcis
                IN  IsQuotient(Total(h, Len(h)), Len(h))
           ELSE IsQuotient(0, 1)

----------------------------------------------------------------------------
(* Properties of inspect_bridges and add_rehab *)

\* C8: inspect_bridges gives every record whose id is in bridge_ids the date
\* and the bci in front of its old bci_history, and changes nothing else;
\* the number and order of records stay, ids of no record have no effect.
C8_InspectFrame ==
    [][op' = "inspect_bridges" =>
        /\ Len(bridge_data') = Len(bridge_data)
        /\ \A k \in 1..Len(bridge_data) :
             IF bridge_data[k].id \in Range(args'.bridge_ids)
             THEN bridge_data'[k] =
                      [bridge_data[k] EXCEPT !.last_inspected = args'.date,
                                             !.bcis = <<args'.bci>> \o @]
             ELSE bridge_data'[k] = bridge_data[k]]_vars

\* an inspection that named a record with a history, left a record out and
\* named an id of no record
C8_Witness ==
    /\ op = "inspect_bridges"
    /\ \E k \in 1..Len(bridge_data) :
         /\ bridge_data[k].id \in Range(args.bridge_ids)
         /\ Len(bridge_data[k].bcis) >= 2
         /\ bridge_data[k].bcis[1] /= bridge_data[k].bcis[2]
    /\ \E k \in 1..Len(bridge_data) : bridge_data[k].id \notin Range(args.bridge_ids)
    /\ \E id \in Range(args.bridge_ids) : ~HasId(bridge_data, id)

\* characters 7 to 10 of the date string (those it has)
YearToken(rehab_year) ==
    [k \in 1..(Max(Min(Len(rehab_year), 10), 6) - 6) |-> rehab_year[6 + k]]

\* C9: add_rehab writes the year token into last_major_rehab_year when rehab
\* is true and into last_minor_rehab_year otherwise, of the record with the
\* id, and changes no other field and no other record; without such a record
\* the collection is unchanged.
C9_RehabFrame ==
    [][op' = "add_rehab" =>
        /\ ret'.exc = "none"
        /\ Len(bridge_data') = Len(bridge_data)
        /\ \A k \in 1..Len(bridge_data) :
             IF bridge_data[k].id = args'.bridge_id
             THEN IF args'.rehab
                  THEN bridge_data'[k] =
                           [bridge_data[k] EXCEPT !.last_major = YearToken(args'.rehab_year)]
                  ELSE bridge_data'[k] =
                           [bridge_data[k] EXCEPT !.last_minor = YearToken(args'.rehab_year)]
             ELSE bridge_data'[k] = bridge_data[k]]_vars

\* a major rehab recorded for one of two records
C9_Witness ==
    /\ op = "add_rehab"
    /\ args.rehab
    /\ Len(bridge_data) >= 2
    /\ \E k \in 1..Len(bridge_data) :
         /\ bridge_data[k].id = args.bridge_id
         /\ bridge_data[k].last_major = <<"2", "0", "2", "3">>
         /\ bridge_data[k].last_minor = Year2009

----------------------------------------------------------------------------
(* Properties of format_data *)

\* C10: a raw row whose length cell is the empty string gets total_length 0.0
\* and no conversion error; a non-empty length cell becomes its float value.
C10_EmptyLengthIsZero ==
    op = "format_data" =>
        \A i \in 1..Len(args.data) :
            LET cell == args.data[i][LENGTH_INDEX + 1].v
                now == data[i][LENGTH_INDEX + 1]
            IN  /\ cell = <<>> =>
                     /\ ret.exc = "none"
                     /\ now.t = "float"
                     /\ now.v.num = 0
                /\ (cell /= <<>> /\ ret.exc = "none") =>
                     /\ now.t = "float"
                     /\ now.v = PyFloat(cell).val

----------------------------------------------------------------------------
(* The pool of assign_inspectors *)

\* C11: when inspector k is processed, the eligible bridges are exactly the
\* collection's ids less the assignments of the inspectors before k; a
\* candidate of an earlier inspector that the capacity cut off is eligible
\* for every later inspector until one of them is given it.
C11_PoolInvariant ==
    Assigned =>
        \A k \in 1..Len(ret.val) :
            LET eligible == EligibleAt(bridge_data, args.inspectors, args.max_bridges, k)
            IN  /\ eligible = {bridge_data[i].id : i \in 1..Len(bridge_data)}
                                  \ AssignedBefore(k)
                /\ \A j \in 1..(k - 1) :
                     \A b \in Range(TierOrder(j)) \ Range(ret.val[j]) :
                         b \in eligible \/ b \in AssignedBefore(k)

\* the capacity cut a candidate of the first inspector off, and the second
\* inspector was given it
C11_Witness ==
    /\ Assigned
    /\ args.max_bridges > 0
    /\ Len(ret.val) = 2
    /\ ret.val[1] /= <<>>
    /\ \E b \in Range(TierOrder(1)) \ Range(ret.val[1]) : b \in Range(ret.val[2])

----------------------------------------------------------------------------
(* The length of a bci history *)

\* C12: after any sequence of calls, each record's bci history is as long as
\* it was at the start plus the number of inspect_bridges calls whose
\* bridge_ids held the record's id, however often the id occurred in one
\* call, and its first entry is the bci of the last call that named the record.
C12_OneEntryPerCall ==
    \A i \in 1..Len(bridge_data) :
        /\ Len(bridge_data[i].bcis) = inspections[i].initial + inspections[i].named
        /\ inspections[i].named > 0 => bridge_data[i].bcis[1] = inspections[i].last

\* a record inspected by two calls with different bcis, the last of which
\* held its id twice
C12_Witness ==
    /\ op = "inspect_bridges"
    /\ \E i \in 1..Len(bridge_data) :
         /\ args.bridge_ids = <<bridge_data[i].id, bridge_data[i].id>>
         /\ inspections[i].named = 2
         /\ Len(bridge_data[i].bcis) = inspections[i].initial + 2
         /\ bridge_data[i].bcis[1] /= bridge_data[i].bcis[2]

====
